---- MODULE Spec2Model ----
(***************************************************************************)
(* Model of ChatGateway (src/src/chat/chat.gateway.ts): the room registry  *)
(* (rooms, users), the socket.io broadcast groups the handlers join, and   *)
(* the events each handler emits.  Handlers run to completion one at a     *)
(* time on the Node.js event loop, so each handler is one atomic action.   *)
(* lastOp, emitted and prev record the handler that ran last, what it      *)
(* emitted and the state it started from; created logs the generated ids,  *)
(* deleted the ids deleteRoom has removed, roomsSent the room list last     *)
(* broadcast to all clients.                                               *)
(***************************************************************************)
EXTENDS Integers, Sequences, FiniteSets, TLC

\* ------------------------------------------------------------------ bounds
MaxTime == 1
MaxConns == 2
MaxCreates == 2

\* ------------------------------------------------------------------ inputs
ConnIds == 1..MaxConns
UserNames == {"alice", "bob"}
RoomNames == {"Lobby", "Games"}
Messages == {"hi"}

\* `room${Date.now()}`
NewRoomId(t) == <<"room", t>>

\* the roomId strings a client may put in a request
RoomIds == {NewRoomId(t) : t \in 0..MaxTime}

NoRoom == <<>>

VARIABLES now, status, rooms, users, groups, created, lastOp, emitted, prev,
          deleted, roomsSent

vars == <<now, status, rooms, users, groups, created, lastOp, emitted, prev,
          deleted, roomsSent>>

\* ------------------------------------------------- Map (insertion ordered)
\* A JavaScript Map is a sequence of entries [k, v] in insertion order.
MapHas(m, key) == \E i \in DOMAIN m : m[i].k = key

MapGet(m, key) == m[CHOOSE i \in DOMAIN m : m[i].k = key].v

MapSet(m, key, val) ==
    IF MapHas(m, key)
    THEN [i \in DOMAIN m |-> IF m[i].k = key THEN [k |-> key, v |-> val] ELSE m[i]]
    ELSE Append(m, [k |-> key, v |-> val])

MapDelete(m, key) == SelectSeq(m, LAMBDA e : e.k # key)

\* Array.from(map.values())
MapValues(m) == [i \in DOMAIN m |-> m[i].v]

MapKeys(m) == {m[i].k : i \in DOMAIN m}

\* ------------------------------------------------------------- emissions
\* client.emit(event, payload)
Private(client, event, payload) ==
    [event |-> event, kind |-> "private", room |-> NoRoom,
     to |-> {client}, payload |-> payload]

\* this.server.to(roomId).emit(event, payload), g the groups at that moment
ToRoom(g, roomId, event, payload) ==
    [event |-> event, kind |-> "group", room |-> roomId,
     to |-> g[roomId], payload |-> payload]

\* client.to(roomId).emit(event, payload)
ToRoomExcept(g, roomId, client, event, payload) ==
    [event |-> event, kind |-> "groupExcept", room |-> roomId,
     to |-> g[roomId] \ {client}, payload |-> payload]

\* this.server.emit(event, payload)
ToAll(event, payload) ==
    [event |-> event, kind |-> "all", room |-> NoRoom,
     to |-> {c \in ConnIds : status[c] = "open"}, payload |-> payload]

\* mutant: the socket is not put into the group
JoinGroupNone(g, client, roomId) == g

\* client.join(roomId)
JoinGroup(g, client, roomId) == [g EXCEPT ![roomId] = @ \cup {client}]

Op(op, client, roomId, userName, roomName, message) ==
    [op |-> op, client |-> client, roomId |-> roomId, userName |-> userName,
     roomName |-> roomName, message |-> message]

\* --------------------------------------------------------------- helpers
\* mutant: the error goes out with this.server.emit
RoomNotFoundToAll(client, roomId) ==
    <<ToAll("error", <<"Room", roomId, "does not exist">>)>>

\* client.emit('error', `Room ${roomId} does not exist`)
RoomNotFound(client, roomId) ==
    <<Private(client, "error", <<"Room", roomId, "does not exist">>)>>

\* this.users.get(roomId) || []
UsersInRoom(m, roomId) == IF MapHas(m, roomId) THEN MapGet(m, roomId) ELSE <<>>

\* mutant: the duplicate check looks at the first member only
UserExistsFirstOnly(usersInRoom, userName) ==
    Len(usersInRoom) > 0 /\ usersInRoom[1].userName = userName

\* usersInRoom.some((user) => user.userName === userName)
UserExists(usersInRoom, userName) ==
    \E i \in DOMAIN usersInRoom : usersInRoom[i].userName = userName

\* mutant: unshift in place of push
PushFront(usersInRoom, user) == <<user>> \o usersInRoom

\* usersInRoom.push(user)
Push(usersInRoom, user) == Append(usersInRoom, user)

\* mutant: === in place of !==
FilterKeepOwn(usersInRoom, clientId) ==
    SelectSeq(usersInRoom, LAMBDA u : u.userId = clientId)

\* mutant: only the first Member of the connection is taken out
FilterOutFirst(usersInRoom, clientId) ==
    IF \E i \in DOMAIN usersInRoom : usersInRoom[i].userId = clientId
    THEN LET f == CHOOSE i \in DOMAIN usersInRoom :
                     /\ usersInRoom[i].userId = clientId
                     /\ \A j \in 1..(i - 1) : usersInRoom[j].userId # clientId
         IN  SubSeq(usersInRoom, 1, f - 1) \o SubSeq(usersInRoom, f + 1, Len(usersInRoom))
    ELSE usersInRoom

\* usersInRoom.filter((user) => user.userId !== client.id)
FilterOut(usersInRoom, clientId) ==
    SelectSeq(usersInRoom, LAMBDA u : u.userId # clientId)

\* the registry and the groups as the handler that ran last found them
Snapshot ==
    [rooms |-> rooms, users |-> users, groups |-> groups, deleted |-> deleted]

\* this.server.emit('rooms' or 'getRooms', list) was the last list sent to all
Sent(list) == [sent |-> TRUE, list |-> list]

\* -------------------------------------------------------------------- Init
Init ==
    /\ now = 0
    /\ status = [c \in ConnIds |-> "idle"]
    /\ rooms = <<>>
    /\ users = <<>>
    /\ groups = [r \in RoomIds |-> {}]
    /\ created = <<>>
    /\ lastOp = Op("init", 0, NoRoom, "", "", "")
    /\ emitted = <<>>
    /\ prev = [rooms |-> <<>>, users |-> <<>>, groups |-> [r \in RoomIds |-> {}],
               deleted |-> {}]
    /\ deleted = {}
    /\ roomsSent = [sent |-> FALSE, list |-> <<>>]

\* Date.now() advances
Tick ==
    /\ now < MaxTime
    /\ now' = now + 1
    /\ lastOp' = Op("tick", 0, NoRoom, "", "", "")
    /\ prev' = Snapshot
    /\ emitted' = <<>>
    /\ UNCHANGED <<status, rooms, users, groups, created, deleted, roomsSent>>

\* a socket connects and is given a fresh id
Connect ==
    /\ \E c \in ConnIds :
        /\ status[c] = "idle"
        /\ \A d \in ConnIds : d < c => status[d] # "idle"
        /\ status' = [status EXCEPT ![c] = "open"]
        /\ lastOp' = Op("connect", c, NoRoom, "", "", "")
        /\ prev' = Snapshot
    /\ emitted' = <<>>
    /\ UNCHANGED <<now, rooms, users, groups, created, deleted, roomsSent>>

\* mutant: the rooms list is broadcast before the new room is stored
createRoomStaleList(client, roomName) ==
    LET roomId == NewRoomId(now)
        room == [roomId |-> roomId, roomName |-> roomName]
        rooms1 == MapSet(rooms, roomId, room)
    IN  /\ status[client] = "open"
        /\ Len(created) < MaxCreates
        /\ rooms' = rooms1
        /\ groups' = JoinGroup(groups, client, roomId)
        /\ emitted' = <<Private(client, "roomCreated", room),
                        ToAll("rooms", MapValues(rooms))>>
        /\ created' = Append(created, roomId)
        /\ lastOp' = Op("createRoom", client, roomId, "", roomName, "")
        /\ prev' = Snapshot
        /\ roomsSent' = Sent(MapValues(rooms))
        /\ UNCHANGED <<now, status, users, deleted>>

createRoom(client, roomName) ==
    LET roomId == NewRoomId(now)
        room == [roomId |-> roomId, roomName |-> roomName]
        rooms1 == MapSet(rooms, roomId, room)
    IN  /\ status[client] = "open"
        /\ Len(created) < MaxCreates
        /\ rooms' = rooms1
        /\ groups' = JoinGroup(groups, client, roomId)
        /\ emitted' = <<Private(client, "roomCreated", room),
                        ToAll("rooms", MapValues(rooms1))>>
        /\ created' = Append(created, roomId)
        /\ lastOp' = Op("createRoom", client, roomId, "", roomName, "")
        /\ prev' = Snapshot
        /\ roomsSent' = Sent(MapValues(rooms1))
        /\ UNCHANGED <<now, status, users, deleted>>


\* mutant: the error goes to the room's group
DuplicateUserNameToRoom(client, userName, roomId) ==
    <<ToRoom(groups, roomId, "error",
             <<"User", userName, "already exists in room", roomId>>)>>

\* client.emit('error', `User ${userName} already exists in room ${roomId}`)
DuplicateUserName(client, userName, roomId) ==
    <<Private(client, "error", <<"User", userName, "already exists in room", roomId>>)>>

joinRoom(client, userName, roomId) ==
    LET usersInRoom == UsersInRoom(users, roomId)
        user == [userId |-> client, userName |-> userName, roomId |-> roomId]
        pushed == Push(usersInRoom, user)
        groups1 == JoinGroup(groups, client, roomId)
    IN  /\ status[client] = "open"
        /\ lastOp' = Op("joinRoom", client, roomId, userName, "", "")
        /\ prev' = Snapshot
        /\ IF ~MapHas(rooms, roomId)
           THEN /\ emitted' = RoomNotFound(client, roomId)
                /\ UNCHANGED <<users, groups>>
           ELSE IF UserExists(usersInRoom, userName)
           THEN /\ emitted' = DuplicateUserName(client, userName, roomId)
                /\ UNCHANGED <<users, groups>>
           ELSE /\ users' = MapSet(users, roomId, pushed)
                /\ groups' = groups1
                /\ emitted' =
                     <<Private(client, "joinedRoom", <<"Successfully joined room:", roomId>>),
                       ToRoomExcept(groups1, roomId, client, "userJoined",
                                    <<userName, "has joined the room">>),
                       ToRoom(groups1, roomId, "totalUsers", pushed)>>
        /\ UNCHANGED <<now, status, rooms, created, deleted, roomsSent>>

\* mutant: the membership list is left behind
DeleteRoomUsersKept(m, roomId) == m

\* this.users.delete(roomId) of deleteRoom
DeleteRoomUsers(m, roomId) == MapDelete(m, roomId)

deleteRoom(client, roomId) ==
    LET rooms1 == MapDelete(rooms, roomId)
    IN  /\ status[client] = "open"
        /\ lastOp' = Op("deleteRoom", client, roomId, "", "", "")
        /\ prev' = Snapshot
        /\ IF ~MapHas(rooms, roomId)
           THEN /\ emitted' = RoomNotFound(client, roomId)
                /\ UNCHANGED <<rooms, users, deleted, roomsSent>>
           ELSE /\ rooms' = rooms1
                /\ users' = DeleteRoomUsers(users, roomId)
                /\ emitted' =
                     <<ToRoom(groups, roomId, "roomDeleted",
                              [message |-> <<"Room", roomId, "has been deleted.">>]),
                       ToAll("rooms", MapValues(rooms1))>>
                /\ deleted' = deleted \cup {roomId}
                /\ roomsSent' = Sent(MapValues(rooms1))
        /\ UNCHANGED <<now, status, groups, created>>

\* mutant: client.to(roomId) in place of this.server.to(roomId)
NewMessageExceptSender(g, client, roomId, userName, message) ==
    <<ToRoomExcept(g, roomId, client, "newMessage",
                   [userId |-> userName, message |-> message])>>

\* this.server.to(roomId).emit('newMessage', { userId: userName, message })
NewMessage(g, client, roomId, userName, message) ==
    <<ToRoom(g, roomId, "newMessage", [userId |-> userName, message |-> message])>>

sendMessage(client, userName, roomId, message) ==
    /\ status[client] = "open"
    /\ lastOp' = Op("sendMessage", client, roomId, userName, "", message)
    /\ prev' = Snapshot
    /\ IF ~MapHas(rooms, roomId)
       THEN emitted' = RoomNotFound(client, roomId)
       ELSE emitted' = NewMessage(groups, client, roomId, userName, message)
    /\ UNCHANGED <<now, status, rooms, users, groups, created, deleted, roomsSent>>

\* mutant: totalUsers carries updatedUsers
leaveRoomSendsUpdated(client, userName, roomId) ==
    LET usersInRoom == UsersInRoom(users, roomId)
        updatedUsers == FilterOut(usersInRoom, client)
    IN  /\ status[client] = "open"
        /\ lastOp' = Op("leaveRoom", client, roomId, userName, "", "")
        /\ prev' = Snapshot
        /\ IF ~MapHas(rooms, roomId)
           THEN /\ emitted' = RoomNotFound(client, roomId)
                /\ UNCHANGED users
           ELSE /\ users' = MapSet(users, roomId, updatedUsers)
                /\ emitted' =
                     <<ToRoomExcept(groups, roomId, client, "userLeft",
                                    <<userName, "has left the room">>),
                       ToRoom(groups, roomId, "totalUsers", updatedUsers)>>
        /\ UNCHANGED <<now, status, rooms, groups, created, deleted, roomsSent>>

\* mutant: the handler ends with client.leave(roomId)
leaveRoomLeavesGroup(client, userName, roomId) ==
    LET usersInRoom == UsersInRoom(users, roomId)
        updatedUsers == FilterOut(usersInRoom, client)
    IN  /\ status[client] = "open"
        /\ lastOp' = Op("leaveRoom", client, roomId, userName, "", "")
        /\ prev' = Snapshot
        /\ IF ~MapHas(rooms, roomId)
           THEN /\ emitted' = RoomNotFound(client, roomId)
                /\ UNCHANGED <<users, groups>>
           ELSE /\ users' = MapSet(users, roomId, updatedUsers)
                /\ emitted' =
                     <<ToRoomExcept(groups, roomId, client, "userLeft",
                                    <<userName, "has left the room">>),
                       ToRoom(groups, roomId, "totalUsers", usersInRoom)>>
                /\ groups' = [groups EXCEPT ![roomId] = @ \ {client}]
        /\ UNCHANGED <<now, status, rooms, created, deleted, roomsSent>>

\* mutant: the filter is user.userName !== userName
leaveRoomByName(client, userName, roomId) ==
    LET usersInRoom == UsersInRoom(users, roomId)
        updatedUsers == SelectSeq(usersInRoom, LAMBDA u : u.userName # userName)
    IN  /\ status[client] = "open"
        /\ lastOp' = Op("leaveRoom", client, roomId, userName, "", "")
        /\ prev' = Snapshot
        /\ IF ~MapHas(rooms, roomId)
           THEN /\ emitted' = RoomNotFound(client, roomId)
                /\ UNCHANGED users
           ELSE /\ users' = MapSet(users, roomId, updatedUsers)
                /\ emitted' =
                     <<ToRoomExcept(groups, roomId, client, "userLeft",
                                    <<userName, "has left the room">>),
                       ToRoom(groups, roomId, "totalUsers", usersInRoom)>>
        /\ UNCHANGED <<now, status, rooms, groups, created, deleted, roomsSent>>

leaveRoom(client, userName, roomId) ==
    LET usersInRoom == UsersInRoom(users, roomId)
        updatedUsers == FilterOut(usersInRoom, client)
    IN  /\ status[client] = "open"
        /\ lastOp' = Op("leaveRoom", client, roomId, userName, "", "")
        /\ prev' = Snapshot
        /\ IF ~MapHas(rooms, roomId)
           THEN /\ emitted' = RoomNotFound(client, roomId)
                /\ UNCHANGED users
           ELSE /\ users' = MapSet(users, roomId, updatedUsers)
                /\ emitted' =
                     <<ToRoomExcept(groups, roomId, client, "userLeft",
                                    <<userName, "has left the room">>),
                       ToRoom(groups, roomId, "totalUsers", usersInRoom)>>
        /\ UNCHANGED <<now, status, rooms, groups, created, deleted, roomsSent>>

\* mutant: the emptied list is stored and broadcast like any other
KeepAlways(updatedUsers) == TRUE

\* updatedUsers.length > 0
KeepList(updatedUsers) == Len(updatedUsers) > 0

\* mutant: a room whose list the sweep empties is dropped from rooms too
handleDisconnectAutoDelete(client) ==
    LET groups1 == [r \in RoomIds |-> groups[r] \ {client}]
        filtered == [i \in DOMAIN users |->
                        [k |-> users[i].k, v |-> FilterOut(users[i].v, client)]]
        kept == SelectSeq(filtered, LAMBDA e : KeepList(e.v))
    IN  /\ status[client] = "open"
        /\ status' = [status EXCEPT ![client] = "closed"]
        /\ groups' = groups1
        /\ users' = kept
        /\ rooms' = SelectSeq(rooms, LAMBDA e :
                        ~MapHas(users, e.k) \/ MapHas(kept, e.k))
        /\ emitted' = [i \in DOMAIN kept |->
                          ToRoom(groups1, kept[i].k, "totalUsers", kept[i].v)]
        /\ lastOp' = Op("disconnect", client, NoRoom, "", "", "")
        /\ prev' = Snapshot
        /\ UNCHANGED <<now, created, deleted, roomsSent>>

\* The socket has left every group before socket.io raises 'disconnect';
\* the forEach visits the entries of users in insertion order, and each
\* visit replaces or deletes only the entry it is visiting.
handleDisconnect(client) ==
    LET groups1 == [r \in RoomIds |-> groups[r] \ {client}]
        filtered == [i \in DOMAIN users |->
                        [k |-> users[i].k, v |-> FilterOut(users[i].v, client)]]
        kept == SelectSeq(filtered, LAMBDA e : KeepList(e.v))
    IN  /\ status[client] = "open"
        /\ status' = [status EXCEPT ![client] = "closed"]
        /\ groups' = groups1
        /\ users' = kept
        /\ emitted' = [i \in DOMAIN kept |->
                          ToRoom(groups1, kept[i].k, "totalUsers", kept[i].v)]
        /\ lastOp' = Op("disconnect", client, NoRoom, "", "", "")
        /\ prev' = Snapshot
        /\ UNCHANGED <<now, rooms, created, deleted, roomsSent>>

triggerFetchAvailableRooms(client) ==
    /\ status[client] = "open"
    /\ emitted' = <<ToAll("getRooms", MapValues(rooms))>>
    /\ lastOp' = Op("fetchRooms", client, NoRoom, "", "", "")
    /\ prev' = Snapshot
    /\ roomsSent' = Sent(MapValues(rooms))
    /\ UNCHANGED <<now, status, rooms, users, groups, created, deleted>>

Next ==
    \/ Tick
    \/ Connect
    \/ \E c \in ConnIds, n \in RoomNames : createRoom(c, n)
    \/ \E c \in ConnIds, u \in UserNames, r \in RoomIds : joinRoom(c, u, r)
    \/ \E c \in ConnIds, r \in RoomIds : deleteRoom(c, r)
    \/ \E c \in ConnIds, u \in UserNames, r \in RoomIds, m \in Messages :
          sendMessage(c, u, r, m)
    \/ \E c \in ConnIds, u \in UserNames, r \in RoomIds : leaveRoom(c, u, r)
    \/ \E c \in ConnIds : handleDisconnect(c)
    \/ \E c \in ConnIds : triggerFetchAvailableRooms(c)

Spec == Init /\ [][Next]_vars


\* ------------------------------------------------------------ properties
\* the member list the handlers read for a room: this.users.get(roomId) || []
MembersBefore(r) == UsersInRoom(prev.users, r)
MembersNow(r) == UsersInRoom(users, r)

\* the only emission is one private error event to the requester
OnlyPrivateError ==
    /\ Len(emitted) = 1
    /\ emitted[1].event = "error"
    /\ emitted[1].kind = "private"
    /\ emitted[1].to = {lastOp.client}

RegistryUnchanged ==
    /\ rooms = prev.rooms
    /\ users = prev.users

\* C1: no two createRoom calls ever generate the same roomId.
C1_RoomIdsUnique ==
    \A i, j \in DOMAIN created : i # j => created[i] # created[j]

\* C2: in every reachable state no room's member list holds two Members
\* with the same userName.
C2_NamesUniquePerRoom ==
    \A e \in DOMAIN users :
        \A i, j \in DOMAIN users[e].v :
            i # j => users[e].v[i].userName # users[e].v[j].userName

\* a join was refused as a duplicate in a room that holds two members
C2_Witness ==
    /\ lastOp.op = "joinRoom"
    /\ MapHas(rooms, lastOp.roomId)
    /\ Len(emitted) = 1
    /\ emitted[1].event = "error"
    /\ Len(MembersNow(lastOp.roomId)) = 2
    /\ MembersNow(lastOp.roomId)[1].userId # MembersNow(lastOp.roomId)[2].userId

\* C3: every roomId with an entry in users has an entry in rooms, and a
\* successful deleteRoom leaves neither map with an entry for its roomId.
C3_NoListSurvivesRoom ==
    /\ MapKeys(users) \subseteq MapKeys(rooms)
    /\ (lastOp.op = "deleteRoom" /\ MapHas(prev.rooms, lastOp.roomId))
          => (~MapHas(rooms, lastOp.roomId) /\ ~MapHas(users, lastOp.roomId))

\* a room that had members was deleted
C3_Witness ==
    /\ lastOp.op = "deleteRoom"
    /\ MapHas(prev.rooms, lastOp.roomId)
    /\ Len(MembersBefore(lastOp.roomId)) > 0

\* C4: joinRoom, leaveRoom, sendMessage and deleteRoom on a roomId absent
\* from rooms change neither rooms, users nor the groups, and emit exactly
\* one private error event to the requester.
C4_AbsentRoomOnlyError ==
    (/\ lastOp.op \in {"joinRoom", "leaveRoom", "sendMessage", "deleteRoom"}
     /\ ~MapHas(prev.rooms, lastOp.roomId))
       => (RegistryUnchanged /\ groups = prev.groups /\ OnlyPrivateError)

\* a request names a deleted room whose group still has other connections
C4_Witness ==
    /\ lastOp.op \in {"joinRoom", "leaveRoom", "sendMessage", "deleteRoom"}
    /\ ~MapHas(prev.rooms, lastOp.roomId)
    /\ groups[lastOp.roomId] \ {lastOp.client} # {}
    /\ rooms # <<>>
    /\ users # <<>>

\* C5: joinRoom with a userName already in the room's member list changes
\* neither rooms, users nor the groups, and emits exactly one private error
\* event to the requester.
C5_DuplicateNameOnlyError ==
    (/\ lastOp.op = "joinRoom"
     /\ MapHas(prev.rooms, lastOp.roomId)
     /\ \E i \in DOMAIN MembersBefore(lastOp.roomId) :
           MembersBefore(lastOp.roomId)[i].userName = lastOp.userName)
       => (RegistryUnchanged /\ groups = prev.groups /\ OnlyPrivateError)

\* another connection asks for a taken name and stays out of the group
C5_Witness ==
    /\ lastOp.op = "joinRoom"
    /\ MapHas(prev.rooms, lastOp.roomId)
    /\ \E i \in DOMAIN MembersBefore(lastOp.roomId) :
          /\ MembersBefore(lastOp.roomId)[i].userName = lastOp.userName
          /\ MembersBefore(lastOp.roomId)[i].userId # lastOp.client
    /\ lastOp.client \notin groups[lastOp.roomId]
    /\ groups[lastOp.roomId] # {}


\* C6: a successful joinRoom(userName, roomId) by connection c leaves the
\* room's list equal to the previous list with the one Member
\* {c, userName, roomId} appended; every other room's list and the rooms
\* map are unchanged.
C6_JoinAppendsOne ==
    (/\ lastOp.op = "joinRoom"
     /\ MapHas(prev.rooms, lastOp.roomId)
     /\ \A i \in DOMAIN MembersBefore(lastOp.roomId) :
           MembersBefore(lastOp.roomId)[i].userName # lastOp.userName)
       => /\ MapHas(users, lastOp.roomId)
          /\ MapGet(users, lastOp.roomId) =
                Append(MembersBefore(lastOp.roomId),
                       [userId |-> lastOp.client, userName |-> lastOp.userName,
                        roomId |-> lastOp.roomId])
          /\ Len(MembersNow(lastOp.roomId)) = Len(MembersBefore(lastOp.roomId)) + 1
          /\ \A r \in RoomIds \ {lastOp.roomId} :
                /\ MapHas(users, r) = MapHas(prev.users, r)
                /\ MembersNow(r) = MembersBefore(r)
          /\ rooms = prev.rooms

\* a second member joined one room while another room has members too
C6_Witness ==
    /\ lastOp.op = "joinRoom"
    /\ Len(emitted) = 3
    /\ Len(MembersBefore(lastOp.roomId)) = 1
    /\ Len(MembersNow(lastOp.roomId)) = 2
    /\ \E r \in RoomIds \ {lastOp.roomId} : Len(MembersNow(r)) > 0

\* C7: a leaveRoom on an existing room removes at most one Member.
C7_LeaveRemovesAtMostOne ==
    (lastOp.op = "leaveRoom" /\ MapHas(prev.rooms, lastOp.roomId))
       => Len(MembersNow(lastOp.roomId)) >= Len(MembersBefore(lastOp.roomId)) - 1

\* C8: the disconnect of connection c leaves in every room exactly the
\* Members of the other connections, in their previous order.
C8_DisconnectRemovesOnlyOwn ==
    lastOp.op = "disconnect"
       => \A r \in RoomIds :
             MembersNow(r) =
                SelectSeq(MembersBefore(r), LAMBDA u : u.userId # lastOp.client)

\* the connection shared one room with another member, and a room it had
\* not joined keeps its members
C8_Witness ==
    /\ lastOp.op = "disconnect"
    /\ \E r \in RoomIds :
          /\ Len(MembersBefore(r)) = 2
          /\ Len(MembersNow(r)) = 1
    /\ \E r \in RoomIds :
          /\ Len(MembersBefore(r)) > 0
          /\ MembersNow(r) = MembersBefore(r)

\* C9: sendMessage to an existing room emits exactly one newMessage event
\* carrying {userId: userName, message}; every connection that is a Member
\* of the room receives it, the sender included when it is a Member; rooms
\* and users are unchanged.
C9_SendReachesEveryMember ==
    (lastOp.op = "sendMessage" /\ MapHas(prev.rooms, lastOp.roomId))
       => /\ Len(emitted) = 1
          /\ emitted[1].event = "newMessage"
          /\ emitted[1].payload =
                [userId |-> lastOp.userName, message |-> lastOp.message]
          /\ \A i \in DOMAIN MembersNow(lastOp.roomId) :
                MembersNow(lastOp.roomId)[i].userId \in emitted[1].to
          /\ RegistryUnchanged

\* a member sends to a room it shares with another member
C9_Witness ==
    /\ lastOp.op = "sendMessage"
    /\ MapHas(prev.rooms, lastOp.roomId)
    /\ \E i, j \in DOMAIN MembersNow(lastOp.roomId) :
          /\ MembersNow(lastOp.roomId)[i].userId = lastOp.client
          /\ MembersNow(lastOp.roomId)[j].userId # lastOp.client

\* the list a disconnect computes for room r
SweptList(r) == SelectSeq(MembersBefore(r), LAMBDA u : u.userId # lastOp.client)

\* C10: after the disconnect of connection A, every room whose filtered
\* list is non-empty stores that list and has it broadcast to its group in
\* a totalUsers event; every room whose filtered list is empty has no entry
\* in users and no totalUsers event.
C10_DisconnectBroadcastsFiltered ==
    lastOp.op = "disconnect"
       => \A r \in RoomIds :
             IF Len(SweptList(r)) > 0
             THEN /\ MapHas(users, r)
                  /\ MapGet(users, r) = SweptList(r)
                  /\ \E i \in DOMAIN emitted :
                        /\ emitted[i].event = "totalUsers"
                        /\ emitted[i].kind = "group"
                        /\ emitted[i].room = r
                        /\ emitted[i].to = groups[r]
                  /\ \A i \in DOMAIN emitted :
                        emitted[i].room = r
                           => /\ emitted[i].event = "totalUsers"
                              /\ emitted[i].payload = SweptList(r)
                              /\ \A k \in DOMAIN emitted[i].payload :
                                    emitted[i].payload[k].userId # lastOp.client
             ELSE /\ ~MapHas(users, r)
                  /\ \A i \in DOMAIN emitted : emitted[i].room # r

\* A and B shared one room and A was alone in another
C10_Witness ==
    /\ lastOp.op = "disconnect"
    /\ \E r \in RoomIds :
          /\ Len(MembersBefore(r)) = 2
          /\ Len(SweptList(r)) = 1
          /\ Len(emitted) = 1
          /\ emitted[1].room = r
    /\ \E r \in RoomIds :
          /\ Len(MembersBefore(r)) > 0
          /\ Len(SweptList(r)) = 0


\* C11: a roomId leaves rooms only through a successful deleteRoom for that
\* roomId; joinRoom, leaveRoom, sendMessage, fetchRooms and the disconnect
\* sweep remove no entry of rooms, also when they leave a room memberless.
C11_RoomsLeaveOnlyByDelete ==
    /\ \A k \in MapKeys(prev.rooms) :
          ~MapHas(rooms, k) => (lastOp.op = "deleteRoom" /\ lastOp.roomId = k)
    /\ lastOp.op \in {"joinRoom", "leaveRoom", "sendMessage", "fetchRooms",
                      "disconnect"}
          => MapKeys(prev.rooms) \subseteq MapKeys(rooms)

\* a disconnect emptied a room, which is still listed
C11_Witness ==
    /\ lastOp.op = "disconnect"
    /\ \E r \in RoomIds :
          /\ Len(MembersBefore(r)) > 0
          /\ ~MapHas(users, r)
          /\ MapHas(rooms, r)


\* the deleteRoom part of C12: roomDeleted reaches every connection that was
\* a Member, both entries are gone, and the rooms event that follows
\* carries the list without the room
DeleteRunsInOrder ==
    (lastOp.op = "deleteRoom" /\ MapHas(prev.rooms, lastOp.roomId))
       => /\ Len(emitted) = 2
          /\ emitted[1].event = "roomDeleted"
          /\ \A i \in DOMAIN MembersBefore(lastOp.roomId) :
                MembersBefore(lastOp.roomId)[i].userId \in emitted[1].to
          /\ ~MapHas(rooms, lastOp.roomId)
          /\ ~MapHas(users, lastOp.roomId)
          /\ emitted[2].event = "rooms"
          /\ emitted[2].kind = "all"
          /\ emitted[2].payload = MapValues(rooms)
          /\ \A i \in DOMAIN emitted[2].payload :
                emitted[2].payload[i].roomId # lastOp.roomId

\* C12: a successful deleteRoom sends roomDeleted to every connection that
\* was a Member, removes the room from rooms and users, then broadcasts the
\* rooms list; every later joinRoom, leaveRoom, sendMessage or deleteRoom
\* for a deleted roomId gets only the private "does not exist" error.
C12_DeleteIsFinal ==
    /\ DeleteRunsInOrder
    /\ (/\ lastOp.op \in {"joinRoom", "leaveRoom", "sendMessage", "deleteRoom"}
        /\ lastOp.roomId \in prev.deleted)
          => (/\ OnlyPrivateError
              /\ emitted[1].payload = <<"Room", lastOp.roomId, "does not exist">>)


\* the last emission went to all clients and carried a room list
LastIsRoomList ==
    /\ Len(emitted) > 0
    /\ emitted[Len(emitted)].kind = "all"
    /\ emitted[Len(emitted)].event \in {"rooms", "getRooms"}

\* C13: the room list last broadcast to all clients equals the contents of
\* rooms; a handler that changes rooms ends with a rooms event carrying the
\* list after the change, with the created room in it and the deleted room
\* out of it.
C13_BroadcastListIsCurrent ==
    /\ IF roomsSent.sent
       THEN roomsSent.list = MapValues(rooms)
       ELSE rooms = <<>>
    /\ LastIsRoomList => emitted[Len(emitted)].payload = roomsSent.list
    /\ rooms # prev.rooms
          => /\ LastIsRoomList
             /\ emitted[Len(emitted)].event = "rooms"
             /\ emitted[Len(emitted)].payload = MapValues(rooms)
    /\ lastOp.op = "createRoom"
          => \E i \in DOMAIN roomsSent.list :
                roomsSent.list[i] =
                   [roomId |-> lastOp.roomId, roomName |-> lastOp.roomName]
    /\ (lastOp.op = "deleteRoom" /\ MapHas(prev.rooms, lastOp.roomId))
          => \A i \in DOMAIN roomsSent.list :
                roomsSent.list[i].roomId # lastOp.roomId

\* one of two rooms was deleted and the list sent holds the other
C13_Witness ==
    /\ lastOp.op = "deleteRoom"
    /\ Len(prev.rooms) = 2
    /\ Len(rooms) = 1
    /\ roomsSent.list = MapValues(rooms)
    /\ LastIsRoomList


\* C14: after joinRoom, leaveRoom or a disconnect has changed a room's
\* member list, a totalUsers event for that room carries the list as it is
\* now stored, and no totalUsers event carries any other list.
C14_TotalUsersIsStoredList ==
    lastOp.op \in {"joinRoom", "leaveRoom", "disconnect"}
       => /\ \A r \in RoomIds :
                MembersNow(r) # MembersBefore(r)
                   => \E i \in DOMAIN emitted :
                         /\ emitted[i].event = "totalUsers"
                         /\ emitted[i].room = r
                         /\ emitted[i].payload = MembersNow(r)
          /\ \A i \in DOMAIN emitted :
                emitted[i].event = "totalUsers"
                   => emitted[i].payload = MembersNow(emitted[i].room)


\* C15: a leaveRoom on an existing room sends userLeft to the group without
\* the requester, then totalUsers to the group with the member list from
\* before the removal; the list stored afterwards is the one without the
\* requester's Members.
C15_LeaveBroadcastsOldList ==
    (lastOp.op = "leaveRoom" /\ MapHas(prev.rooms, lastOp.roomId))
       => /\ Len(emitted) = 2
          /\ emitted[1].event = "userLeft"
          /\ emitted[1].room = lastOp.roomId
          /\ emitted[1].to = groups[lastOp.roomId] \ {lastOp.client}
          /\ emitted[1].payload = <<lastOp.userName, "has left the room">>
          /\ emitted[2].event = "totalUsers"
          /\ emitted[2].room = lastOp.roomId
          /\ emitted[2].to = groups[lastOp.roomId]
          /\ emitted[2].payload = MembersBefore(lastOp.roomId)
          /\ MapHas(users, lastOp.roomId)
          /\ MapGet(users, lastOp.roomId) =
                SelectSeq(MembersBefore(lastOp.roomId),
                          LAMBDA u : u.userId # lastOp.client)

\* a member left a room of two: the payload still holds it, the list does not
C15_Witness ==
    /\ lastOp.op = "leaveRoom"
    /\ MapHas(prev.rooms, lastOp.roomId)
    /\ Len(emitted) = 2
    /\ Len(emitted[2].payload) = 2
    /\ \E i \in DOMAIN emitted[2].payload :
          emitted[2].payload[i].userId = lastOp.client
    /\ Len(MembersNow(lastOp.roomId)) = 1
    /\ MembersNow(lastOp.roomId)[1].userId # lastOp.client


\* C16: leaveRoom changes no broadcast group; a connection stays in every
\* group it is in until it disconnects, and every group event reaches the
\* whole group, so a connection that left a room still receives its events.
C16_LeaveKeepsGroup ==
    /\ lastOp.op = "leaveRoom" => groups = prev.groups
    /\ lastOp.op # "disconnect"
          => \A r \in RoomIds : prev.groups[r] \subseteq groups[r]
    /\ lastOp.op = "disconnect"
          => \A r \in RoomIds : groups[r] = prev.groups[r] \ {lastOp.client}
    /\ \A i \in DOMAIN emitted :
          emitted[i].kind = "group" => emitted[i].to = groups[emitted[i].room]

\* a member left its room, is no Member any more and still gets totalUsers
C16_Witness ==
    /\ lastOp.op = "leaveRoom"
    /\ MapHas(prev.rooms, lastOp.roomId)
    /\ \E i \in DOMAIN MembersBefore(lastOp.roomId) :
          MembersBefore(lastOp.roomId)[i].userId = lastOp.client
    /\ \A i \in DOMAIN MembersNow(lastOp.roomId) :
          MembersNow(lastOp.roomId)[i].userId # lastOp.client
    /\ lastOp.client \in groups[lastOp.roomId]
    /\ Len(emitted) = 2
    /\ lastOp.client \in emitted[2].to


\* C17: the rooms and users a leaveRoom by connection c leaves behind are
\* fixed by c, the roomId and the state before, whatever userName is sent:
\* the room's list loses exactly the Members of c, the others keep their
\* order, and every other room's list and rooms are untouched.
C17_LeaveIgnoresUserName ==
    lastOp.op = "leaveRoom"
       => /\ rooms = prev.rooms
          /\ MembersNow(lastOp.roomId) =
                SelectSeq(MembersBefore(lastOp.roomId),
                          LAMBDA u : u.userId # lastOp.client)
          /\ MapHas(users, lastOp.roomId) =
                (MapHas(prev.users, lastOp.roomId) \/ MapHas(prev.rooms, lastOp.roomId))
          /\ \A r \in RoomIds \ {lastOp.roomId} :
                /\ MapHas(users, r) = MapHas(prev.users, r)
                /\ MembersNow(r) = MembersBefore(r)

\* c leaves under the name of another connection's Member, which stays
C17_Witness ==
    /\ lastOp.op = "leaveRoom"
    /\ MapHas(prev.rooms, lastOp.roomId)
    /\ \E i, j \in DOMAIN MembersBefore(lastOp.roomId) :
          /\ MembersBefore(lastOp.roomId)[i].userId = lastOp.client
          /\ MembersBefore(lastOp.roomId)[i].userName # lastOp.userName
          /\ MembersBefore(lastOp.roomId)[j].userId # lastOp.client
          /\ MembersBefore(lastOp.roomId)[j].userName = lastOp.userName
    /\ Len(MembersNow(lastOp.roomId)) = 1
    /\ MembersNow(lastOp.roomId)[1].userName = lastOp.userName


\* C18: in every reachable state the connection of every Member stored for
\* a room is in that room's broadcast group.
C18_MembersAreInGroup ==
    \A e \in DOMAIN users :
        \A i \in DOMAIN users[e].v : users[e].v[i].userId \in groups[users[e].k]

\* two connections are Members of a room whose creator also sits in a group
\* without being a Member
C18_Witness ==
    \E r \in RoomIds :
        /\ Len(MembersNow(r)) = 2
        /\ MembersNow(r)[1].userId # MembersNow(r)[2].userId
        /\ \E q \in RoomIds :
              \E c \in groups[q] :
                 \A i \in DOMAIN MembersNow(q) : MembersNow(q)[i].userId # c

\* C19: every Member in users belongs to a connection that is connected;
\* once a connection's disconnect has run, no Member carries its identity.
C19_MembersAreConnected ==
    /\ \A e \in DOMAIN users :
          \A i \in DOMAIN users[e].v : status[users[e].v[i].userId] = "open"
    /\ \A c \in ConnIds :
          status[c] = "closed"
             => \A r \in RoomIds :
                   \A i \in DOMAIN MembersNow(r) : MembersNow(r)[i].userId # c

\* a connection that was a Member of a room it shared has disconnected and
\* only the other connection's Member is left
C19_Witness ==
    /\ lastOp.op = "disconnect"
    /\ status[lastOp.client] = "closed"
    /\ \E r \in RoomIds :
          /\ \E i \in DOMAIN MembersBefore(r) :
                MembersBefore(r)[i].userId = lastOp.client
          /\ Len(MembersNow(r)) > 0
          /\ \A i \in DOMAIN MembersNow(r) :
                status[MembersNow(r)[i].userId] = "open"


\* C20: right after a createRoom the room it created has no members, and
\* every room that was in rooms before is still there under the same
\* roomName.
C20_CreateIsFresh ==
    lastOp.op = "createRoom"
       => /\ Len(MembersNow(lastOp.roomId)) = 0
          /\ \A i \in DOMAIN prev.rooms :
                /\ MapHas(rooms, prev.rooms[i].k)
                /\ MapGet(rooms, prev.rooms[i].k).roomName = prev.rooms[i].v.roomName

====
